---- MODULE Spec2Model ----
(***************************************************************************)
(* Tenant-scoped Redis cache accessor (pkg/provider/redis.go).             *)
(*                                                                         *)
(* redis.go carries two definitions of RedisClient.  Spec models the later *)
(* one (lines 147-310): an accessor bound to (instanceID, userID) whose    *)
(* writes carry CacheTTL.  SpecLegacy adds the earlier one (lines 1-146),  *)
(* whose calls take a teamID and whose writes carry expiration 0.          *)
(* SpecForeign adds another writer of the same Redis.  SpecConc,           *)
(* SpecConcTenants and SpecLive split a call into the sending of its       *)
(* command, the store's execution of it and the return, so that calls of   *)
(* several goroutines interleave and a context can be cancelled in flight. *)
(*                                                                         *)
(* Strings are sequences of one-character strings, so that fmt.Sprintf is  *)
(* a concatenation that can be compared character by character.  Time is   *)
(* counted in hours.                                                       *)
(***************************************************************************)
EXTENDS Integers, Sequences, FiniteSets, TLC

VARIABLES
    accessors,   \* accessor id -> the RedisClient value (or not yet constructed)
    store,       \* the Redis keyspace: key -> [data, ttl]; absent keys are missing
    hist,        \* history: key -> what the last successful Set on it wrote, and when
    last,        \* the most recent call: its store command and what it returned
    calls,       \* goroutine id -> the call it has in flight (or idle)
    started      \* the Sets begun as calls in flight: <<instanceID, userID, resource, arg>>

vars == <<accessors, store, hist, last, calls, started>>

----------------------------------------------------------------------------
(* Bounds *)

\* longest collection written, and the hours that pass in one step of the clock
MaxLen == 2
HoursPerTick == 2

\* accessor ids, in the order the accessors are constructed
Accessors == {1, 2}

\* user records and channel records (opaque to the accessor)
UserRecords == {"u1", "u2"}
ChannelRecords == {"c1"}

----------------------------------------------------------------------------
(* Strings *)

InstanceIDs == { <<"a">>, <<"a", "/", "b">> }
UserIDs == { <<"b">>, <<"b", "/", "b">> }
TeamIDs == InstanceIDs

EmptyStr == << >>
SlackPrefix == <<"s", "l", "a", "c", "k", ":">>
UsersRes == <<"u", "s", "e", "r", "s">>
ChannelsRes == <<"c", "h", "a", "n", "n", "e", "l", "s">>
Resources == {UsersRes, ChannelsRes}

\* values of REDIS_ADDR (empty when unset) and the default address
Addrs == { EmptyStr, <<"r", ":", "1">> }
DefaultAddr == <<"l", "o", "c", "a", "l", "h", "o", "s", "t", ":", "6", "3", "7", "9">>

DbStrs == { EmptyStr, <<"0">>, <<"x">>, <<"-", "1">>, <<"1", "x">>, <<"+">> }
Digits == {"0", "1", "2", "3", "4", "5", "6", "7", "8", "9"}

\* strconv.Atoi on the REDIS_DB setting: an optional sign, then one or more
\* decimal digits; anything else is an error
DigitVal(c) == CHOOSE n \in 0..9 : <<"0", "1", "2", "3", "4", "5", "6", "7", "8", "9">>[n + 1] = c

RECURSIVE AtoiVal(_)
AtoiVal(s) == IF s = EmptyStr THEN 0
              ELSE 10 * AtoiVal(SubSeq(s, 1, Len(s) - 1)) + DigitVal(s[Len(s)])

Atoi(s) ==
    LET signed == s # EmptyStr /\ s[1] \in {"+", "-"}
        d == IF signed THEN Tail(s) ELSE s
    IN IF d # EmptyStr /\ \A i \in 1..Len(d) : d[i] \in Digits
       THEN [err |-> FALSE, val |-> IF signed /\ s[1] = "-" THEN 0 - AtoiVal(d) ELSE AtoiVal(d)]
       ELSE [err |-> TRUE, val |-> 0]

----------------------------------------------------------------------------
(* Collections and their JSON payloads *)

\* a Go slice: nil, or a (possibly empty) sequence of records
NilSlice == [isNil |-> TRUE, items |-> << >>]
Slice(s) == [isNil |-> FALSE, items |-> s]

SeqsUpTo(recs, n) == UNION { [1..m -> recs] : m \in 0..n }
Collections(recs) == {NilSlice} \cup { Slice(s) : s \in SeqsUpTo(recs, MaxLen) }
UserCollections == Collections(UserRecords)
ChannelCollections == Collections(ChannelRecords)

\* len(users)
SliceLen(c) == Len(c.items)

RECURSIVE JoinItems(_)
JoinItems(s) == IF Len(s) = 0 THEN << >>
                ELSE IF Len(s) = 1 THEN <<s[1]>>
                ELSE <<s[1], ",">> \o JoinItems(Tail(s))

\* a collection json.Marshal returns an error for (a record holding a value
\* that has no JSON encoding)
Unencodable == Slice(<<"nan">>)
Encodable(c) == \A i \in 1..Len(c.items) : c.items[i] # "nan"

\* json.Marshal of a slice: null for the nil slice, else the array of its records
Marshal(c) == IF c.isNil THEN <<"null">>
              ELSE <<"[">> \o JoinItems(c.items) \o <<"]">>

\* the body of a JSON array: records at the odd positions, commas between them
WellFormedBody(b, recs) ==
    /\ Len(b) % 2 = 1
    /\ \A i \in 1..Len(b) : IF i % 2 = 1 THEN b[i] \in recs ELSE b[i] = ","

\* (a decoder that fills the slice back to front)
BodyItemsReversed(b) == [i \in 1..((Len(b) + 1) \div 2) |-> b[Len(b) + 1 - (2 * i - 1)]]

\* the elements of the array, in the order of the payload
BodyItems(b) == [i \in 1..((Len(b) + 1) \div 2) |-> b[2 * i - 1]]

\* json.Unmarshal into a nil slice variable: null leaves it nil, [] makes it
\* empty and non-nil, anything that is not an array of records is an error
Unmarshal(d, recs) ==
    IF d = <<"null">> THEN [err |-> FALSE, coll |-> NilSlice]
    ELSE IF Len(d) >= 2 /\ d[1] = "[" /\ d[Len(d)] = "]"
    THEN LET b == SubSeq(d, 2, Len(d) - 1) IN
         IF b = << >> THEN [err |-> FALSE, coll |-> Slice(<< >>)]
         ELSE IF WellFormedBody(b, recs) THEN [err |-> FALSE, coll |-> Slice(BodyItems(b))]
         ELSE [err |-> TRUE, coll |-> NilSlice]
    ELSE [err |-> TRUE, coll |-> NilSlice]

----------------------------------------------------------------------------
(* The accessor *)

CacheTTL == 6
NoExpiration == 0

NoAccessor == [st |-> "none", rev |-> 1, instanceID |-> EmptyStr, userID |-> EmptyStr]

\* the RedisClient value NewRedisClient returns
RedisClient(instanceID, userID) ==
    [st |-> "open", rev |-> 1, instanceID |-> instanceID, userID |-> userID]

\* (the key of the earlier definition, without the user)
getSlackKeyNoUser(r, resource) ==
    SlackPrefix \o r.instanceID \o <<":">> \o resource

\* fmt.Sprintf("slack:%s/%s:%s", r.instanceID, r.userID, resource)
getSlackKey(r, resource) ==
    SlackPrefix \o r.instanceID \o <<"/">> \o r.userID \o <<":">> \o resource

----------------------------------------------------------------------------
(* The key-value store: SET with expiration, GET, expiry *)

\* SET key data EX exp: replaces the entry and its expiration
StoreSet(s, key, data, exp) ==
    [k \in DOMAIN s \cup {key} |-> IF k = key THEN [data |-> data, ttl |-> exp] ELSE s[k]]

\* GET key: the payload, or the missing indicator (redis.Nil)
StoreGet(s, key) ==
    IF key \in DOMAIN s THEN [reply |-> "value", data |-> s[key].data]
    ELSE [reply |-> "missing", data |-> << >>]

\* h hours pass: an entry with no more than h hours left is removed, one
\* without expiration stays
StoreExpire(s, h) ==
    [k \in {x \in DOMAIN s : s[x].ttl = NoExpiration \/ s[x].ttl > h} |->
        IF s[k].ttl = NoExpiration THEN s[k] ELSE [s[k] EXCEPT !.ttl = @ - h]]

\* what the store answers to a command: a fault is any error other than
\* redis.Nil; a closed client answers every command with an error
Faults == {"none", "fault"}

Answers(r, fault) == r.st = "open" /\ fault = "none"

----------------------------------------------------------------------------
(* History of successful writes, kept to state the claims *)

\* key -> the collection of the most recent successful Set on it, the hours
\* since then (CacheTTL stands for CacheTTL or more, and the collection is
\* forgotten), and whether that Set has just replaced a different payload
HistSet(h, key, c, replaced) ==
    [k \in DOMAIN h \cup {key} |->
        IF k = key THEN [arg |-> c, age |-> 0, over |-> replaced, by |-> 0] ELSE h[k]]

HistTick(h, hours) ==
    [k \in DOMAIN h |->
        IF h[k].age + hours >= CacheTTL
        THEN [arg |-> NilSlice, age |-> CacheTTL, over |-> FALSE, by |-> 0]
        ELSE [h[k] EXCEPT !.age = @ + hours, !.over = FALSE]]

Written(key) == key \in DOMAIN hist
Fresh(key) == key \in DOMAIN hist /\ hist[key].age < CacheTTL
Stale(key) == key \in DOMAIN hist /\ hist[key].age >= CacheTTL

----------------------------------------------------------------------------
(* Call records *)

NoLog == [msg |-> "", team_id |-> EmptyStr, instance_id |-> EmptyStr, user_id |-> EmptyStr,
          count |-> 0]

\* (a record that leaves the user out, as the earlier definition's did)
LogInfoNoUser(msg, r, n) ==
    [NoLog EXCEPT !.msg = msg, !.instance_id = r.instanceID, !.count = n]

\* r.logger.Info(msg, instance_id, user_id, count)
LogInfo(msg, r, n) ==
    [NoLog EXCEPT !.msg = msg, !.instance_id = r.instanceID, !.user_id = r.userID,
                  !.count = n]

NoCall == [op |-> "none", acc |-> 0, arg |-> NilSlice, cmd |-> "none", cmds |-> 0,
           key |-> EmptyStr, exp |-> 0, reply |-> "none", coll |-> NilSlice, err |-> "nil",
           log |-> NoLog, cfg |-> EmptyStr, scope |-> <<EmptyStr, EmptyStr>>, prev |-> 0,
           addrEnv |-> EmptyStr, client |-> FALSE, addr |-> EmptyStr, db |-> 0]

\* the goroutines that call the accessors, and a goroutine with no call in flight
Goroutines == {1, 2}
Idle == [st |-> "idle", op |-> "none", acc |-> 0, arg |-> NilSlice, key |-> EmptyStr,
         data |-> EmptyStr, reply |-> "none", rdata |-> EmptyStr,
         scope |-> <<EmptyStr, EmptyStr>>]

TypeOK ==
    /\ \A a \in Accessors : accessors[a].st \in {"none", "open", "closed"}
    /\ \A k \in DOMAIN store : store[k].ttl \in 0..CacheTTL
    /\ \A k \in DOMAIN hist : hist[k].age \in 0..CacheTTL
    /\ last.op \in {"none", "NewRedisClient", "SetUsers", "GetUsers", "SetChannels",
                    "GetChannels", "Close", "Tick", "ForeignWrite"}
    /\ \A g \in Goroutines : calls[g].st \in {"idle", "sent", "answered"}

Init ==
    /\ accessors = [a \in Accessors |-> NoAccessor]
    /\ store = << >>
    /\ hist = << >>
    /\ last = NoCall
    /\ calls = [g \in Goroutines |-> Idle]
    /\ started = {}

----------------------------------------------------------------------------
(* Operations of the accessor (the later definition, lines 174-310) *)

Bound(a) == accessors[a].st # "none" /\ accessors[a].rev = 1
Constructed(a) == accessors[a].st # "none"

\* (a constructor that creates the client and pings before it looks at REDIS_DB)
NewRedisClientEnvPingFirst(a, instanceID, userID, addrStr, dbStr, pingOK) ==
    /\ accessors[a].st = "none"
    /\ \A b \in Accessors : b < a => accessors[b].st # "none"
    /\ LET bad == dbStr # EmptyStr /\ Atoi(dbStr).err
           ok == ~bad /\ pingOK
           r == RedisClient(instanceID, userID)
       IN /\ accessors' = IF ok THEN [accessors EXCEPT ![a] = r] ELSE accessors
          /\ last' = [NoCall EXCEPT !.op = "NewRedisClient", !.acc = a,
                          !.cfg = dbStr, !.scope = <<instanceID, userID>>,
                          !.addrEnv = addrStr, !.client = TRUE,
                          !.addr = IF addrStr = EmptyStr THEN DefaultAddr ELSE addrStr,
                          !.db = IF dbStr = EmptyStr \/ bad THEN 0 ELSE Atoi(dbStr).val,
                          !.cmd = "PING", !.cmds = 1,
                          !.reply = IF pingOK THEN "ok" ELSE "fault",
                          !.err = IF ~pingOK THEN "connect" ELSE IF bad THEN "config" ELSE "nil",
                          !.log = IF ok THEN [NoLog EXCEPT !.msg = "Connected to Redis"] ELSE NoLog]
    /\ UNCHANGED <<store, hist, calls, started>>

\* NewRedisClient(logger, instanceID, userID) with REDIS_ADDR = addrStr,
\* REDIS_DB = dbStr and a store that answers the ping or not
NewRedisClientEnv(a, instanceID, userID, addrStr, dbStr, pingOK) ==
    /\ accessors[a].st = "none"
    /\ \A b \in Accessors : b < a => accessors[b].st # "none"
    /\ LET bad == dbStr # EmptyStr /\ Atoi(dbStr).err
           ok == ~bad /\ pingOK
           r == RedisClient(instanceID, userID)
       IN /\ accessors' = IF ok THEN [accessors EXCEPT ![a] = r] ELSE accessors
          /\ last' = [NoCall EXCEPT !.op = "NewRedisClient", !.acc = a,
                          !.cfg = dbStr, !.scope = <<instanceID, userID>>,
                          !.addrEnv = addrStr, !.client = ~bad,
                          !.addr = IF bad THEN EmptyStr
                                   ELSE IF addrStr = EmptyStr THEN DefaultAddr ELSE addrStr,
                          !.db = IF bad \/ dbStr = EmptyStr THEN 0 ELSE Atoi(dbStr).val,
                          !.cmd = IF bad THEN "none" ELSE "PING",
                          !.cmds = IF bad THEN 0 ELSE 1,
                          !.reply = IF bad THEN "none" ELSE IF pingOK THEN "ok" ELSE "fault",
                          !.err = IF bad THEN "config" ELSE IF pingOK THEN "nil" ELSE "connect",
                          !.log = IF ok THEN [NoLog EXCEPT !.msg = "Connected to Redis"] ELSE NoLog]
    /\ UNCHANGED <<store, hist, calls, started>>

\* (a constructor that hands out the accessor without looking at the ping)
NewRedisClientNoPing(a, instanceID, userID, dbStr, pingOK) ==
    /\ accessors[a].st = "none"
    /\ \A b \in Accessors : b < a => accessors[b].st # "none"
    /\ LET bad == dbStr # EmptyStr /\ Atoi(dbStr).err
           r == RedisClient(instanceID, userID)
       IN /\ accessors' = IF ~bad THEN [accessors EXCEPT ![a] = r] ELSE accessors
          /\ last' = [NoCall EXCEPT !.op = "NewRedisClient", !.acc = a,
                          !.cfg = dbStr, !.scope = <<instanceID, userID>>,
                          !.cmd = IF bad THEN "none" ELSE "PING",
                          !.cmds = IF bad THEN 0 ELSE 1,
                          !.reply = IF bad THEN "none" ELSE IF pingOK THEN "ok" ELSE "fault",
                          !.err = IF bad THEN "config" ELSE "nil"]
    /\ UNCHANGED <<store, hist, calls, started>>

\* NewRedisClient(logger, instanceID, userID) with REDIS_DB = dbStr, under
\* any setting of REDIS_ADDR
NewRedisClient(a, instanceID, userID, dbStr, pingOK) ==
    \E addrStr \in Addrs : NewRedisClientEnv(a, instanceID, userID, addrStr, dbStr, pingOK)

\* (a write that keeps an entry that is already there, as SETNX would)
SetResourceNX(a, op, resource, msg, c, fault) ==
    /\ Bound(a)
    /\ LET r == accessors[a]
           data == Marshal(c)
           key == getSlackKey(r, resource)
           ok == Answers(r, fault)
           replaced == key \in DOMAIN store /\ store[key].data # data
       IN /\ store' = IF ok /\ key \notin DOMAIN store
                      THEN StoreSet(store, key, data, CacheTTL) ELSE store
          /\ hist' = IF ok THEN HistSet(hist, key, c, replaced) ELSE hist
          /\ last' = [NoCall EXCEPT !.op = op, !.acc = a, !.arg = c, !.cmd = "SET",
                          !.cmds = 1,
                          !.key = key, !.exp = CacheTTL,
                          !.reply = IF ok THEN "ok" ELSE "fault",
                          !.err = IF ok THEN "nil" ELSE "storage",
                          !.log = IF ok THEN LogInfo(msg, r, SliceLen(c)) ELSE NoLog]
    /\ UNCHANGED <<accessors, calls, started>>

\* (a write with expiration 0, as in the earlier definition)
SetResourceNoExpiry(a, op, resource, msg, c, fault) ==
    /\ Bound(a)
    /\ LET r == accessors[a]
           data == Marshal(c)
           key == getSlackKey(r, resource)
           ok == Answers(r, fault)
           replaced == key \in DOMAIN store /\ store[key].data # data
       IN /\ store' = IF ok THEN StoreSet(store, key, data, NoExpiration) ELSE store
          /\ hist' = IF ok THEN HistSet(hist, key, c, replaced) ELSE hist
          /\ last' = [NoCall EXCEPT !.op = op, !.acc = a, !.arg = c, !.cmd = "SET",
                          !.cmds = 1,
                          !.key = key, !.exp = NoExpiration,
                          !.reply = IF ok THEN "ok" ELSE "fault",
                          !.err = IF ok THEN "nil" ELSE "storage",
                          !.log = IF ok THEN LogInfo(msg, r, SliceLen(c)) ELSE NoLog]
    /\ UNCHANGED <<accessors, calls, started>>

\* (a Set that writes under a key of its own instance)
SetResourcePrivate(a, op, resource, msg, c, fault) ==
    /\ Bound(a)
    /\ LET r == accessors[a]
           data == Marshal(c)
           key == getSlackKey(r, resource) \o <<"#", IF a = 1 THEN "1" ELSE "2">>
           ok == Answers(r, fault)
           replaced == key \in DOMAIN store /\ store[key].data # data
       IN /\ store' = IF ok THEN StoreSet(store, key, data, CacheTTL) ELSE store
          /\ hist' = IF ok THEN [HistSet(hist, key, c, replaced) EXCEPT ![key].by = a]
                     ELSE hist
          /\ last' = [NoCall EXCEPT !.op = op, !.acc = a, !.arg = c, !.cmd = "SET",
                          !.cmds = 1,
                          !.key = key, !.exp = CacheTTL,
                          !.reply = IF ok THEN "ok" ELSE "fault",
                          !.err = IF ok THEN "nil" ELSE "storage",
                          !.log = IF ok THEN LogInfo(msg, r, SliceLen(c)) ELSE NoLog]
    /\ UNCHANGED <<accessors, calls, started>>

\* (a Set that keeps the expiration of the entry it replaces, as SET KEEPTTL would)
SetResourceKeepTTL(a, op, resource, msg, c, fault) ==
    /\ Bound(a)
    /\ LET r == accessors[a]
           data == Marshal(c)
           key == getSlackKey(r, resource)
           ok == Answers(r, fault)
           replaced == key \in DOMAIN store /\ store[key].data # data
           exp == IF key \in DOMAIN store THEN store[key].ttl ELSE CacheTTL
       IN /\ store' = IF ok THEN StoreSet(store, key, data, exp) ELSE store
          /\ hist' = IF ok THEN [HistSet(hist, key, c, replaced) EXCEPT ![key].by = a]
                     ELSE hist
          /\ last' = [NoCall EXCEPT !.op = op, !.acc = a, !.arg = c, !.cmd = "SET",
                          !.cmds = 1,
                          !.key = key, !.exp = CacheTTL,
                          !.prev = IF key \in DOMAIN store THEN store[key].ttl ELSE 0,
                          !.reply = IF ok THEN "ok" ELSE "fault",
                          !.err = IF ok THEN "nil" ELSE "storage",
                          !.log = IF ok THEN LogInfo(msg, r, SliceLen(c)) ELSE NoLog]
    /\ UNCHANGED <<accessors, calls, started>>

\* (a Set that sends its write a second time when the first one fails)
SetResourceRetry(a, op, resource, msg, c, fault) ==
    /\ Bound(a)
    /\ LET r == accessors[a]
           data == Marshal(c)
           key == getSlackKey(r, resource)
           ok == r.st = "open"
           replaced == key \in DOMAIN store /\ store[key].data # data
       IN /\ store' = IF ok THEN StoreSet(store, key, data, CacheTTL) ELSE store
          /\ hist' = IF ok THEN HistSet(hist, key, c, replaced) ELSE hist
          /\ last' = [NoCall EXCEPT !.op = op, !.acc = a, !.arg = c, !.cmd = "SET",
                          !.cmds = IF fault = "none" THEN 1 ELSE 2,
                          !.key = key, !.exp = CacheTTL,
                          !.reply = IF ok THEN "ok" ELSE "fault",
                          !.err = IF ok THEN "nil" ELSE "storage",
                          !.log = IF ok THEN LogInfo(msg, r, SliceLen(c)) ELSE NoLog]
    /\ UNCHANGED <<accessors, calls, started>>

\* the body shared by SetUsers and SetChannels: marshal, SET with CacheTTL,
\* log and return nil, or return the store's error
SetResource(a, op, resource, msg, c, fault) ==
    /\ Bound(a)
    /\ LET r == accessors[a]
           enc == Encodable(c)
           data == Marshal(c)
           key == getSlackKey(r, resource)
           ok == enc /\ Answers(r, fault)
           replaced == key \in DOMAIN store /\ store[key].data # data
       IN /\ store' = IF ok THEN StoreSet(store, key, data, CacheTTL) ELSE store
          /\ hist' = IF ok THEN [HistSet(hist, key, c, replaced) EXCEPT ![key].by = a]
                     ELSE hist
          /\ last' = IF ~enc
                     THEN [NoCall EXCEPT !.op = op, !.acc = a, !.arg = c,
                                         !.err = "serialization"]
                     ELSE [NoCall EXCEPT !.op = op, !.acc = a, !.arg = c, !.cmd = "SET",
                          !.cmds = 1,
                          !.key = key, !.exp = CacheTTL,
                          !.prev = IF key \in DOMAIN store THEN store[key].ttl ELSE 0,
                          !.reply = IF ok THEN "ok" ELSE "fault",
                          !.err = IF ok THEN "nil" ELSE "storage",
                          !.log = IF ok THEN LogInfo(msg, r, SliceLen(c)) ELSE NoLog]
    /\ UNCHANGED <<accessors, calls, started>>

\* (SetUsers writing under the channels key)
SetUsersToChannels(a, users, fault) ==
    SetResource(a, "SetUsers", ChannelsRes, "Cached users to Redis", users, fault)

SetUsers(a, users, fault) ==
    SetResource(a, "SetUsers", UsersRes, "Cached users to Redis", users, fault)

SetChannels(a, channels, fault) ==
    SetResource(a, "SetChannels", ChannelsRes, "Cached channels to Redis", channels, fault)

\* (a Get that answers a miss with an empty collection)
GetOutcomeEmptyOnMiss(r, msg, recs, g) ==
    IF g.reply = "missing" THEN [coll |-> Slice(<< >>), err |-> "nil", log |-> NoLog]
    ELSE IF g.reply = "fault" THEN [coll |-> NilSlice, err |-> "storage", log |-> NoLog]
    ELSE LET u == Unmarshal(g.data, recs) IN
         IF u.err THEN [coll |-> NilSlice, err |-> "serialization", log |-> NoLog]
         ELSE [coll |-> u.coll, err |-> "nil", log |-> LogInfo(msg, r, SliceLen(u.coll))]

\* (a Get that takes every failure for a miss)
GetOutcomeMissOnError(r, msg, recs, g) ==
    IF g.reply \in {"missing", "fault"} THEN [coll |-> NilSlice, err |-> "nil", log |-> NoLog]
    ELSE LET u == Unmarshal(g.data, recs) IN
         IF u.err THEN [coll |-> NilSlice, err |-> "nil", log |-> NoLog]
         ELSE [coll |-> u.coll, err |-> "nil", log |-> LogInfo(msg, r, SliceLen(u.coll))]

\* what GetUsers / GetChannels return for the store's answer g
GetOutcome(r, msg, recs, g) ==
    IF g.reply = "missing" THEN [coll |-> NilSlice, err |-> "nil", log |-> NoLog]
    ELSE IF g.reply = "fault" THEN [coll |-> NilSlice, err |-> "storage", log |-> NoLog]
    ELSE LET u == Unmarshal(g.data, recs) IN
         IF u.err THEN [coll |-> NilSlice, err |-> "serialization", log |-> NoLog]
         ELSE [coll |-> u.coll, err |-> "nil", log |-> LogInfo(msg, r, SliceLen(u.coll))]

\* (a Get that renews the expiration of the entry it reads, as GETEX would)
GetResourceTouch(a, op, resource, msg, recs, fault) ==
    /\ Bound(a)
    /\ LET r == accessors[a]
           key == getSlackKey(r, resource)
           g == IF Answers(r, fault) THEN StoreGet(store, key)
                ELSE [reply |-> "fault", data |-> << >>]
           out == GetOutcome(r, msg, recs, g)
       IN /\ last' = [NoCall EXCEPT !.op = op, !.acc = a, !.cmd = "GET",
                          !.cmds = 1, !.key = key,
                          !.reply = g.reply, !.coll = out.coll, !.err = out.err,
                          !.log = out.log]
          /\ store' = IF g.reply = "value" THEN StoreSet(store, key, g.data, CacheTTL)
                      ELSE store
    /\ UNCHANGED <<accessors, hist, calls, started>>

\* the body shared by GetUsers and GetChannels
GetResource(a, op, resource, msg, recs, fault) ==
    /\ Bound(a)
    /\ LET r == accessors[a]
           key == getSlackKey(r, resource)
           g == IF Answers(r, fault) THEN StoreGet(store, key)
                ELSE [reply |-> "fault", data |-> << >>]
           out == GetOutcome(r, msg, recs, g)
       IN last' = [NoCall EXCEPT !.op = op, !.acc = a, !.cmd = "GET",
                       !.cmds = 1, !.key = key,
                       !.reply = g.reply, !.coll = out.coll, !.err = out.err,
                       !.log = out.log]
    /\ UNCHANGED <<accessors, store, hist, calls, started>>

GetUsers(a, fault) ==
    GetResource(a, "GetUsers", UsersRes, "Loaded users from Redis", UserRecords, fault)

GetChannels(a, fault) ==
    GetResource(a, "GetChannels", ChannelsRes, "Loaded channels from Redis", ChannelRecords,
                fault)

\* (a Close that clears the fields of the accessor)
CloseZeroesScope(a) ==
    /\ Constructed(a)
    /\ accessors' = [accessors EXCEPT ![a].st = "closed", ![a].instanceID = EmptyStr,
                                      ![a].userID = EmptyStr]
    /\ last' = [NoCall EXCEPT !.op = "Close", !.acc = a, !.cmd = "CLOSE",
                    !.reply = IF accessors[a].st = "open" THEN "ok" ELSE "fault",
                    !.err = IF accessors[a].st = "open" THEN "nil" ELSE "closed"]
    /\ UNCHANGED <<store, hist, calls, started>>

\* (a Close that reports success when the client is closed already)
CloseSwallow(a) ==
    /\ Constructed(a)
    /\ accessors' = [accessors EXCEPT ![a].st = "closed"]
    /\ last' = [NoCall EXCEPT !.op = "Close", !.acc = a, !.cmd = "CLOSE",
                    !.reply = IF accessors[a].st = "open" THEN "ok" ELSE "fault",
                    !.err = "nil"]
    /\ UNCHANGED <<store, hist, calls, started>>

\* Close forwards to the store client, which refuses a second close
Close(a) ==
    /\ Constructed(a)
    /\ accessors' = [accessors EXCEPT ![a].st = "closed"]
    /\ last' = [NoCall EXCEPT !.op = "Close", !.acc = a, !.cmd = "CLOSE",
                    !.reply = IF accessors[a].st = "open" THEN "ok" ELSE "fault",
                    !.err = IF accessors[a].st = "open" THEN "nil" ELSE "closed"]
    /\ UNCHANGED <<store, hist, calls, started>>

\* hours pass at the store
Tick(hours) ==
    /\ store' = StoreExpire(store, hours)
    /\ hist' = HistTick(hist, hours)
    /\ last' = [NoCall EXCEPT !.op = "Tick"]
    /\ UNCHANGED <<accessors, calls, started>>

\* the calls of the accessors accs with these arguments and store faults
NextOver(accs, insts, uids, users, channels, faults, hours) ==
    \/ \E a \in accs, i \in insts, u \in uids, d \in DbStrs, p \in BOOLEAN :
           NewRedisClient(a, i, u, d, p)
    \/ \E a \in accs, c \in users, f \in faults : SetUsers(a, c, f)
    \/ \E a \in accs, f \in faults : GetUsers(a, f)
    \/ \E a \in accs, c \in channels, f \in faults : SetChannels(a, c, f)
    \/ \E a \in accs, f \in faults : GetChannels(a, f)
    \/ \E a \in accs : Close(a)
    \/ Tick(hours)

\* one accessor, every collection up to MaxLen, store faults, the clock in
\* steps of HoursPerTick
Next ==
    NextOver({1}, InstanceIDs, {<<"b">>}, UserCollections, ChannelCollections, Faults,
             HoursPerTick)

Spec == Init /\ [][Next]_vars

\* several accessors side by side, each writing one-record collections; no
\* store faults; a step of the clock expires every entry
OneRecord(recs) == { Slice(<<x>>) : x \in recs }

NextTenants ==
    NextOver(Accessors, InstanceIDs, UserIDs, OneRecord(UserRecords),
             OneRecord(ChannelRecords), {"none"}, CacheTTL)

SpecTenants == Init /\ [][NextTenants]_vars

----------------------------------------------------------------------------
(* The earlier definition of RedisClient (lines 17-146): no scope, a teamID *)
(* per call, writes without expiration                                      *)

LegacyRedisClient == [st |-> "open", rev |-> 0, instanceID |-> EmptyStr, userID |-> EmptyStr]

\* fmt.Sprintf("slack:%s:users", teamID), fmt.Sprintf("slack:%s:channels", teamID)
LegacyKey(teamID, resource) == SlackPrefix \o teamID \o <<":">> \o resource

LegacyLogInfo(msg, teamID, n) == [NoLog EXCEPT !.msg = msg, !.team_id = teamID, !.count = n]

LegacyNewRedisClient(a, dbStr, pingOK) ==
    /\ accessors[a].st = "none"
    /\ \A b \in Accessors : b < a => accessors[b].st # "none"
    /\ LET bad == dbStr # EmptyStr /\ Atoi(dbStr).err
           ok == ~bad /\ pingOK
       IN /\ accessors' = IF ok THEN [accessors EXCEPT ![a] = LegacyRedisClient] ELSE accessors
          /\ last' = [NoCall EXCEPT !.op = "NewRedisClient", !.acc = a,
                          !.cmd = IF bad THEN "none" ELSE "PING",
                          !.reply = IF bad THEN "none" ELSE IF pingOK THEN "ok" ELSE "fault",
                          !.err = IF bad THEN "config" ELSE IF pingOK THEN "nil" ELSE "connect",
                          !.log = IF ok THEN [NoLog EXCEPT !.msg = "Connected to Redis"] ELSE NoLog]
    /\ UNCHANGED <<store, hist, calls, started>>

LegacyBound(a) == accessors[a].st # "none" /\ accessors[a].rev = 0

\* r.client.Set(ctx, key, data, 0)
LegacySetResource(a, op, resource, msg, teamID, c, fault) ==
    /\ LegacyBound(a)
    /\ LET r == accessors[a]
           data == Marshal(c)
           key == LegacyKey(teamID, resource)
           ok == Answers(r, fault)
           replaced == key \in DOMAIN store /\ store[key].data # data
       IN /\ store' = IF ok THEN StoreSet(store, key, data, NoExpiration) ELSE store
          /\ hist' = IF ok THEN HistSet(hist, key, c, replaced) ELSE hist
          /\ last' = [NoCall EXCEPT !.op = op, !.acc = a, !.arg = c, !.cmd = "SET",
                          !.cmds = 1,
                          !.key = key, !.exp = NoExpiration,
                          !.reply = IF ok THEN "ok" ELSE "fault",
                          !.err = IF ok THEN "nil" ELSE "storage",
                          !.log = IF ok THEN LegacyLogInfo(msg, teamID, SliceLen(c)) ELSE NoLog]
    /\ UNCHANGED <<accessors, calls, started>>

LegacySetUsers(a, teamID, users, fault) ==
    LegacySetResource(a, "SetUsers", UsersRes, "Cached users to Redis", teamID, users, fault)

LegacySetChannels(a, teamID, channels, fault) ==
    LegacySetResource(a, "SetChannels", ChannelsRes, "Cached channels to Redis", teamID,
                      channels, fault)

LegacyGetResource(a, op, resource, msg, recs, teamID, fault) ==
    /\ LegacyBound(a)
    /\ LET r == accessors[a]
           key == LegacyKey(teamID, resource)
           g == IF Answers(r, fault) THEN StoreGet(store, key)
                ELSE [reply |-> "fault", data |-> << >>]
           out == GetOutcome(r, msg, recs, g)
           log == IF out.log = NoLog THEN NoLog
                  ELSE LegacyLogInfo(msg, teamID, SliceLen(out.coll))
       IN last' = [NoCall EXCEPT !.op = op, !.acc = a, !.cmd = "GET",
                       !.cmds = 1, !.key = key,
                       !.reply = g.reply, !.coll = out.coll, !.err = out.err, !.log = log]
    /\ UNCHANGED <<accessors, store, hist, calls, started>>

LegacyGetUsers(a, teamID, fault) ==
    LegacyGetResource(a, "GetUsers", UsersRes, "Loaded users from Redis", UserRecords,
                      teamID, fault)

LegacyGetChannels(a, teamID, fault) ==
    LegacyGetResource(a, "GetChannels", ChannelsRes, "Loaded channels from Redis",
                      ChannelRecords, teamID, fault)

\* one accessor of the earlier definition, writing one-record collections
NextLegacy ==
    \/ \E d \in DbStrs, p \in BOOLEAN : LegacyNewRedisClient(1, d, p)
    \/ \E t \in TeamIDs, c \in OneRecord(UserRecords), f \in Faults :
           LegacySetUsers(1, t, c, f)
    \/ \E t \in TeamIDs, f \in Faults : LegacyGetUsers(1, t, f)
    \/ \E t \in TeamIDs, c \in OneRecord(ChannelRecords), f \in Faults :
           LegacySetChannels(1, t, c, f)
    \/ \E t \in TeamIDs, f \in Faults : LegacyGetChannels(1, t, f)
    \/ Close(1)
    \/ Tick(CacheTTL)

SpecLegacy == Init /\ [][NextLegacy]_vars

----------------------------------------------------------------------------
(* A key whose payload the accessor did not write *)

\* payloads json.Unmarshal rejects: not JSON, an array cut short, an object
\* where an array is expected
CorruptPayloads == { <<"x">>, <<"[", "u1">>, <<"{", "}">> }
ForeignPayloads == CorruptPayloads \cup { <<"[", "u1", "]">> }

\* another writer of the same Redis puts a payload at a key of accessor a
ForeignWrite(a, resource, data) ==
    /\ Bound(a)
    /\ LET key == getSlackKey(accessors[a], resource)
       IN /\ store' = StoreSet(store, key, data, CacheTTL)
          /\ last' = [NoCall EXCEPT !.op = "ForeignWrite", !.key = key]
    /\ UNCHANGED <<accessors, hist, calls, started>>

NextForeign ==
    \/ NextOver({1}, {<<"a">>}, {<<"b">>},
                OneRecord(UserRecords) \cup {NilSlice, Unencodable},
                OneRecord(ChannelRecords), Faults, CacheTTL)
    \/ \E res \in Resources, d \in ForeignPayloads : ForeignWrite(1, res, d)

SpecForeign == Init /\ [][NextForeign]_vars

----------------------------------------------------------------------------
(* Calls in flight: a call sends its command, the store answers it, the      *)
(* call returns; the caller's context may be cancelled in between            *)

OpResource(op) == IF op \in {"SetUsers", "GetUsers"} THEN UsersRes ELSE ChannelsRes
OpRecords(op) == IF op \in {"SetUsers", "GetUsers"} THEN UserRecords ELSE ChannelRecords
OpMsg(op) ==
    CASE op = "SetUsers" -> "Cached users to Redis"
      [] op = "GetUsers" -> "Loaded users from Redis"
      [] op = "SetChannels" -> "Cached channels to Redis"
      [] op = "GetChannels" -> "Loaded channels from Redis"

\* SetUsers / SetChannels up to r.client.Set: the payload and the key are
\* fixed and the SET is on its way
BeginSet(g, a, op, c) ==
    /\ calls[g].st = "idle"
    /\ Bound(a) /\ accessors[a].st = "open"
    /\ LET r == accessors[a]
       IN /\ calls' = [calls EXCEPT ![g] =
                         [Idle EXCEPT !.st = "sent", !.op = op, !.acc = a, !.arg = c,
                                      !.key = getSlackKey(r, OpResource(op)),
                                      !.data = Marshal(c)]]
          /\ started' = started \cup {<<r.instanceID, r.userID, OpResource(op), c>>}
    /\ UNCHANGED <<accessors, store, hist, last>>

\* GetUsers / GetChannels up to r.client.Get: the GET is on its way
BeginGet(g, a, op) ==
    /\ calls[g].st = "idle"
    /\ Bound(a) /\ accessors[a].st = "open"
    /\ calls' = [calls EXCEPT ![g] =
                    [Idle EXCEPT !.st = "sent", !.op = op, !.acc = a,
                                 !.key = getSlackKey(accessors[a], OpResource(op))]]
    /\ UNCHANGED <<accessors, store, hist, last, started>>

SetOps == {"SetUsers", "SetChannels"}
GetOps == {"GetUsers", "GetChannels"}

\* (a store that keeps the entry that is already there: the first write wins)
LandSetIfAbsent(g, fault) ==
    /\ calls[g].st = "sent" /\ calls[g].op \in SetOps
    /\ LET c == calls[g]
           ok == fault = "none"
           kept == c.key \in DOMAIN store
       IN /\ store' = IF ok /\ ~kept THEN StoreSet(store, c.key, c.data, CacheTTL) ELSE store
          /\ hist' = IF ok THEN HistSet(hist, c.key, c.arg, FALSE) ELSE hist
          /\ calls' = [calls EXCEPT ![g].st = "answered",
                                    ![g].reply = IF ok THEN "ok" ELSE "fault"]
    /\ UNCHANGED <<accessors, last, started>>

\* the store executes the SET of call g, or fails it
LandSet(g, fault) ==
    /\ calls[g].st = "sent" /\ calls[g].op \in SetOps
    /\ LET c == calls[g]
           ok == fault = "none"
           replaced == c.key \in DOMAIN store /\ store[c.key].data # c.data
       IN /\ store' = IF ok THEN StoreSet(store, c.key, c.data, CacheTTL) ELSE store
          /\ hist' = IF ok THEN HistSet(hist, c.key, c.arg, replaced) ELSE hist
          /\ calls' = [calls EXCEPT ![g].st = "answered",
                                    ![g].reply = IF ok THEN "ok" ELSE "fault"]
    /\ UNCHANGED <<accessors, last, started>>

\* the store executes the GET of call g, or fails it
LandGet(g, fault) ==
    /\ calls[g].st = "sent" /\ calls[g].op \in GetOps
    /\ LET c == calls[g]
           got == IF fault = "none" THEN StoreGet(store, c.key)
                  ELSE [reply |-> "fault", data |-> << >>]
       IN calls' = [calls EXCEPT ![g].st = "answered", ![g].reply = got.reply,
                                 ![g].rdata = got.data]
    /\ UNCHANGED <<accessors, store, hist, last, started>>

\* SetUsers / SetChannels from the answer of r.client.Set to the return
ReturnSet(g) ==
    /\ calls[g].st = "answered" /\ calls[g].op \in SetOps
    /\ LET c == calls[g]
           r == accessors[c.acc]
           ok == c.reply = "ok"
       IN last' = [NoCall EXCEPT !.op = c.op, !.acc = c.acc, !.arg = c.arg, !.cmd = "SET",
                       !.cmds = 1, !.key = c.key, !.exp = CacheTTL, !.reply = c.reply,
                       !.err = IF ok THEN "nil" ELSE "storage",
                       !.log = IF ok THEN LogInfo(OpMsg(c.op), r, SliceLen(c.arg))
                               ELSE NoLog]
    /\ calls' = [calls EXCEPT ![g] = Idle]
    /\ UNCHANGED <<accessors, store, hist, started>>

\* GetUsers / GetChannels from the answer of r.client.Get to the return
ReturnGet(g) ==
    /\ calls[g].st = "answered" /\ calls[g].op \in GetOps
    /\ LET c == calls[g]
           r == accessors[c.acc]
           out == GetOutcome(r, OpMsg(c.op), OpRecords(c.op),
                             [reply |-> c.reply, data |-> c.rdata])
       IN last' = [NoCall EXCEPT !.op = c.op, !.acc = c.acc, !.cmd = "GET", !.cmds = 1,
                       !.key = c.key, !.reply = c.reply, !.coll = out.coll,
                       !.err = out.err, !.log = out.log]
    /\ calls' = [calls EXCEPT ![g] = Idle]
    /\ UNCHANGED <<accessors, store, hist, started>>

\* (a cancelled call that returns what a miss returns)
CancelAsMiss(g) ==
    /\ calls[g].st \in {"sent", "answered"} /\ calls[g].op \in SetOps \cup GetOps
    /\ LET c == calls[g]
       IN last' = [NoCall EXCEPT !.op = c.op, !.acc = c.acc, !.arg = c.arg,
                       !.cmd = IF c.op \in SetOps THEN "SET" ELSE "GET", !.cmds = 1,
                       !.key = c.key, !.exp = IF c.op \in SetOps THEN CacheTTL ELSE 0,
                       !.reply = "cancelled", !.err = "nil"]
    /\ calls' = [calls EXCEPT ![g] = Idle]
    /\ UNCHANGED <<accessors, store, hist, started>>

\* ctx is cancelled or its deadline passes while the command of call g is in
\* flight: r.client.Set / r.client.Get return the context's error, which is
\* not redis.Nil, and the call returns it wrapped
Cancel(g) ==
    /\ calls[g].st \in {"sent", "answered"} /\ calls[g].op \in SetOps \cup GetOps
    /\ LET c == calls[g]
       IN last' = [NoCall EXCEPT !.op = c.op, !.acc = c.acc, !.arg = c.arg,
                       !.cmd = IF c.op \in SetOps THEN "SET" ELSE "GET", !.cmds = 1,
                       !.key = c.key, !.exp = IF c.op \in SetOps THEN CacheTTL ELSE 0,
                       !.reply = "cancelled", !.err = "storage"]
    /\ calls' = [calls EXCEPT ![g] = Idle]
    /\ UNCHANGED <<accessors, store, hist, started>>

\* the calls in flight; callers is the set of <<goroutine, accessor>> pairs
\* that may begin a call
NextCalls(callers, users, channels, faults) ==
    \/ \E p \in callers, c \in users : BeginSet(p[1], p[2], "SetUsers", c)
    \/ \E p \in callers, c \in channels : BeginSet(p[1], p[2], "SetChannels", c)
    \/ \E p \in callers, op \in GetOps : BeginGet(p[1], p[2], op)
    \/ \E g \in Goroutines, f \in faults : LandSet(g, f)
    \/ \E g \in Goroutines, f \in faults : LandGet(g, f)
    \/ \E g \in Goroutines : ReturnSet(g)
    \/ \E g \in Goroutines : ReturnGet(g)
    \/ \E g \in Goroutines : Cancel(g)

\* two goroutines on one accessor, or on two accessors of the same scope
NextConc ==
    \/ \E a \in Accessors, p \in BOOLEAN : NewRedisClient(a, <<"a">>, <<"b">>, EmptyStr, p)
    \/ NextCalls({<<1, 1>>, <<2, 1>>, <<2, 2>>}, OneRecord(UserRecords),
                 OneRecord(ChannelRecords), {"none"})
    \/ Tick(CacheTTL)

SpecConc == Init /\ [][NextConc]_vars

\* two goroutines, each on its own accessor, of any two scopes
NextConcTenants ==
    \/ \E a \in Accessors, i \in InstanceIDs, u \in UserIDs, p \in BOOLEAN :
          NewRedisClient(a, i, u, EmptyStr, p)
    \/ NextCalls({<<1, 1>>, <<2, 2>>}, {Slice(<<"u1">>)}, {Slice(<<"c1">>)}, {"none"})

SpecConcTenants == Init /\ [][NextConcTenants]_vars

----------------------------------------------------------------------------
(* Construction in flight: the ping is sent under a 5 s deadline, the store  *)
(* answers it or does not                                                    *)

\* NewRedisClient up to rdb.Ping(ctx), REDIS_DB being empty or an integer
BeginNew(g, a, instanceID, userID, dbStr) ==
    /\ calls[g].st = "idle"
    /\ accessors[a].st = "none"
    /\ \A h \in Goroutines : ~(calls[h].op = "NewRedisClient" /\ calls[h].acc = a)
    /\ dbStr = EmptyStr \/ ~Atoi(dbStr).err
    /\ calls' = [calls EXCEPT ![g] =
                    [Idle EXCEPT !.st = "sent", !.op = "NewRedisClient", !.acc = a,
                                 !.data = dbStr, !.scope = <<instanceID, userID>>]]
    /\ UNCHANGED <<accessors, store, hist, last, started>>

\* the store answers the ping, or fails it
LandPing(g, fault) ==
    /\ calls[g].st = "sent" /\ calls[g].op = "NewRedisClient"
    /\ calls' = [calls EXCEPT ![g].st = "answered",
                              ![g].reply = IF fault = "none" THEN "ok" ELSE "fault"]
    /\ UNCHANGED <<accessors, store, hist, last, started>>

\* NewRedisClient from the answer of the ping to the return
ReturnNew(g) ==
    /\ calls[g].st = "answered" /\ calls[g].op = "NewRedisClient"
    /\ LET c == calls[g]
           ok == c.reply = "ok"
       IN /\ accessors' = IF ok THEN [accessors EXCEPT ![c.acc] =
                                         RedisClient(c.scope[1], c.scope[2])]
                          ELSE accessors
          /\ last' = [NoCall EXCEPT !.op = "NewRedisClient", !.acc = c.acc,
                          !.cfg = c.data, !.scope = c.scope, !.cmd = "PING", !.cmds = 1,
                          !.reply = c.reply,
                          !.err = IF ok THEN "nil" ELSE "connect",
                          !.log = IF ok THEN [NoLog EXCEPT !.msg = "Connected to Redis"]
                                  ELSE NoLog]
    /\ calls' = [calls EXCEPT ![g] = Idle]
    /\ UNCHANGED <<store, hist, started>>

\* (a ping under context.Background(): no deadline ever fires)
PingNoTimeout(g) ==
    /\ FALSE
    /\ UNCHANGED vars

\* the deadline of context.WithTimeout(context.Background(), 5*time.Second)
\* passes before the answer to the ping is read
PingTimeout(g) ==
    /\ calls[g].st \in {"sent", "answered"} /\ calls[g].op = "NewRedisClient"
    /\ LET c == calls[g]
       IN last' = [NoCall EXCEPT !.op = "NewRedisClient", !.acc = c.acc,
                       !.cfg = c.data, !.scope = c.scope, !.cmd = "PING", !.cmds = 1,
                       !.reply = "timeout", !.err = "connect"]
    /\ calls' = [calls EXCEPT ![g] = Idle]
    /\ UNCHANGED <<accessors, store, hist, started>>

NextLive ==
    \/ \E g \in Goroutines, d \in {EmptyStr, <<"0">>} : BeginNew(g, 1, <<"a">>, <<"b">>, d)
    \/ \E g \in Goroutines, f \in Faults : LandPing(g, f)
    \/ \E g \in Goroutines : ReturnNew(g)
    \/ \E g \in Goroutines : PingTimeout(g)
    \/ NextCalls({<<1, 1>>, <<2, 1>>}, {Slice(<<"u1">>)}, {Slice(<<"c1">>)}, Faults)
    \/ Close(1)

\* the deadline of the ping always fires; a goroutine whose answer has come
\* runs on to its return; the command of a Get or a Set is answered by the
\* store or its context fires.  Nothing makes the store answer a ping.
Fairness ==
    \A g \in Goroutines :
        /\ WF_vars(PingTimeout(g))
        /\ WF_vars(ReturnNew(g) \/ ReturnSet(g) \/ ReturnGet(g))
        /\ WF_vars((\E f \in Faults : LandSet(g, f) \/ LandGet(g, f)) \/ Cancel(g))

SpecLive == Init /\ [][NextLive]_vars /\ Fairness

----------------------------------------------------------------------------
(* Claims *)

IsSet(c) == c.op \in {"SetUsers", "SetChannels"}
IsGet(c) == c.op \in {"GetUsers", "GetChannels"}
SameKind(c, d) ==
    \/ c.op \in {"SetUsers", "GetUsers"} /\ d.op \in {"SetUsers", "GetUsers"}
    \/ c.op \in {"SetChannels", "GetChannels"} /\ d.op \in {"SetChannels", "GetChannels"}

\* the cache-miss outcome: (nil, nil)
Absent(c) == c.coll = NilSlice /\ c.err = "nil"

\* C1: a successful SetUsers/SetChannels(C) followed directly by GetUsers/
\* GetChannels on the same accessor, the store answering, returns C: the same
\* records in the same order, the empty sequence as the empty sequence.
C1_RoundTrip ==
    [][(/\ IsSet(last) /\ last.err = "nil"
        /\ IsGet(last') /\ last'.acc = last.acc /\ SameKind(last, last')
        /\ last'.reply # "fault")
       => (last'.err = "nil" /\ last'.coll = last.arg)]_vars

C1_Witness ==
    /\ last.op = "GetUsers" /\ last.err = "nil"
    /\ last.coll = Slice(<<"u2", "u1">>)
    /\ Fresh(last.key) /\ hist[last.key].age = 0 /\ hist[last.key].arg = last.coll

\* C2: GetUsers/GetChannels on a key that was never written, the store
\* answering, finds the key missing and returns (nil, nil): no error, and not
\* the empty collection.
C2_MissDistinct ==
    (IsGet(last) /\ ~Written(last.key) /\ last.reply # "fault")
        => /\ last.reply = "missing"
           /\ last.err = "nil"
           /\ last.coll = NilSlice
           /\ last.coll # Slice(<< >>)

C2_Witness ==
    /\ last.op = "GetChannels" /\ ~Written(last.key) /\ last.reply = "missing"
    /\ Absent(last)

\* C3: whenever the key exists and its payload decodes without error, the
\* outcome of GetUsers/GetChannels differs from the cache-miss outcome; the
\* cache-miss outcome is returned only when the store reports the key missing.
C3_FoundDistinct ==
    IsGet(last) =>
        /\ (last.reply = "value" /\ last.err = "nil") => ~Absent(last)
        /\ Absent(last) => last.reply = "missing"


\* the scope an accessor is bound to
Scope(a) == <<accessors[a].instanceID, accessors[a].userID>>

\* what a Get through the accessor r would return from the store s, the
\* store answering
ViewIn(s, r, resource, recs) ==
    LET out == GetOutcome(r, "", recs, StoreGet(s, getSlackKey(r, resource)))
    IN <<out.coll, out.err>>

UsersView(s, r) == ViewIn(s, r, UsersRes, UserRecords)
ChannelsView(s, r) == ViewIn(s, r, ChannelsRes, ChannelRecords)

\* C4: a Set through an accessor bound to scope S1 never changes what a Get
\* through an accessor bound to a different scope S2 returns.
C4_ScopeIsolation ==
    [][\A a, b \in Accessors :
          (/\ IsSet(last') /\ last'.acc = a
           /\ Bound(a) /\ Bound(b) /\ Scope(a) # Scope(b))
          => /\ UsersView(store', accessors'[b]) = UsersView(store, accessors[b])
             /\ ChannelsView(store', accessors'[b]) = ChannelsView(store, accessors[b])]_vars

\* C5: no two distinct (instanceID, userID, kind) triples yield the same key.
C5_KeyInjective ==
    \A a, b \in Accessors : \A k1, k2 \in Resources :
        (/\ Bound(a) /\ Bound(b)
         /\ getSlackKey(accessors[a], k1) = getSlackKey(accessors[b], k2))
        => (Scope(a) = Scope(b) /\ k1 = k2)

\* the two keys of the scope of accessor a, spelled out
UsersKeyOf(a) ==
    <<"s", "l", "a", "c", "k", ":">> \o accessors[a].instanceID \o <<"/">>
        \o accessors[a].userID \o <<":", "u", "s", "e", "r", "s">>

ChannelsKeyOf(a) ==
    <<"s", "l", "a", "c", "k", ":">> \o accessors[a].instanceID \o <<"/">>
        \o accessors[a].userID \o <<":", "c", "h", "a", "n", "n", "e", "l", "s">>

\* C6: every store command of SetUsers/GetUsers uses the key
\* "slack:" + instanceID + "/" + userID + ":users", every store command of
\* SetChannels/GetChannels the key "slack:" + instanceID + "/" + userID +
\* ":channels", for the scope of the calling accessor; the two keys differ.
C6_KeyFormat ==
    /\ last.op \in {"SetUsers", "GetUsers"} => last.key = UsersKeyOf(last.acc)
    /\ last.op \in {"SetChannels", "GetChannels"} => last.key = ChannelsKeyOf(last.acc)
    /\ (IsSet(last) \/ IsGet(last)) => UsersKeyOf(last.acc) # ChannelsKeyOf(last.acc)

C6_Witness ==
    /\ last.op = "SetChannels" /\ last.cmd = "SET" /\ last.reply = "ok"
    /\ last.key = <<"s", "l", "a", "c", "k", ":", "a", "/", "b", "/", "b", ":",
                    "c", "h", "a", "n", "n", "e", "l", "s">>
    /\ last.key \in DOMAIN store

\* C7: a Get, the store answering, returns exactly the collection of the most
\* recent successful Set on that key while that write has not expired; after
\* C1 then C2 were written it returns C2, nothing of C1.
C7_Overwrite ==
    (IsGet(last) /\ last.reply # "fault" /\ Fresh(last.key))
        => (last.err = "nil" /\ last.coll = hist[last.key].arg)

C7_Witness ==
    /\ last.op = "GetUsers" /\ last.reply = "value"
    /\ Fresh(last.key) /\ hist[last.key].over
    /\ last.coll = hist[last.key].arg /\ last.coll = Slice(<<"u1">>)

\* C8: every store write carries the expiration CacheTTL, never a zero or
\* unbounded one, so every entry in the store has between one and CacheTTL
\* hours left.
C8_TTLAttached ==
    /\ last.cmd = "SET" => last.exp = CacheTTL
    /\ \A k \in DOMAIN store : store[k].ttl \in 1..CacheTTL

\* C9: an entry written by a Set and not rewritten stays readable while less
\* than CacheTTL hours have passed since that write, is gone from the store
\* once CacheTTL hours have passed, and from then on a Get on it, the store
\* answering, returns the cache-miss outcome and no error.
C9_Expiry ==
    /\ \A k \in DOMAIN hist :
          /\ hist[k].age < CacheTTL => k \in DOMAIN store /\ store[k].data = Marshal(hist[k].arg)
          /\ hist[k].age >= CacheTTL => k \notin DOMAIN store
    /\ (IsGet(last) /\ Stale(last.key) /\ last.reply # "fault")
          => (last.reply = "missing" /\ Absent(last))

C9_Witness ==
    /\ last.op = "GetUsers" /\ Stale(last.key) /\ last.reply = "missing" /\ Absent(last)

\* the store's entry under a key: whether it is there, its payload, its hours left
EntryAt(s, k) ==
    IF k \in DOMAIN s THEN [present |-> TRUE, data |-> s[k].data, ttl |-> s[k].ttl]
    ELSE [present |-> FALSE, data |-> << >>, ttl |-> 0]

\* C10: SetUsers leaves the channels entry of its scope as it was (there or
\* not, payload, hours left) and with it what GetChannels returns; SetChannels
\* does the same for the users entry and GetUsers.
C10_KindIndependence ==
    [][\A a \in Accessors :
          /\ (last'.op = "SetUsers" /\ last'.acc = a) =>
                /\ EntryAt(store', ChannelsKeyOf(a)) = EntryAt(store, ChannelsKeyOf(a))
                /\ ChannelsView(store', accessors'[a]) = ChannelsView(store, accessors[a])
          /\ (last'.op = "SetChannels" /\ last'.acc = a) =>
                /\ EntryAt(store', UsersKeyOf(a)) = EntryAt(store, UsersKeyOf(a))
                /\ UsersView(store', accessors'[a]) = UsersView(store, accessors[a])]_vars

C10_Witness ==
    /\ last.op = "SetUsers" /\ last.err = "nil" /\ last.arg = Slice(<<"u1", "u2">>)
    /\ ChannelsKeyOf(last.acc) \in DOMAIN store
    /\ store[ChannelsKeyOf(last.acc)].ttl < CacheTTL
    /\ store[ChannelsKeyOf(last.acc)].data = <<"[", "c1", "]">>

\* C11: a Get whose store read fails for a reason other than a missing key
\* returns a Storage error, a Get whose key holds a payload that does not
\* decode returns a Serialization error; neither returns the absent outcome
\* or a collection.
C11_GetFailureIsError ==
    IsGet(last) =>
        /\ last.reply = "fault" => last.err = "storage" /\ last.coll = NilSlice
        /\ (/\ last.reply # "fault"
            /\ last.key \in DOMAIN store
            /\ store[last.key].data \in CorruptPayloads)
           => last.err = "serialization" /\ last.coll = NilSlice

C11_Witness ==
    /\ last.op = "GetUsers" /\ last.reply = "value" /\ last.err = "serialization"
    /\ store[last.key].data = <<"[", "u1">>


\* C12: a Set whose store write fails returns a Storage error after exactly
\* one command to the store client and leaves the store as it was; a Set
\* returns success only if the store holds its payload under CacheTTL; every
\* Get and every Set issues at most one command.
C12_SingleRequest ==
    /\ (IsSet(last) \/ IsGet(last)) => last.cmds <= 1
    /\ (IsSet(last) /\ last.reply = "fault") =>
           /\ last.err = "storage" /\ last.cmds = 1
           /\ Written(last.key) /\ Fresh(last.key) =>
                  /\ last.key \in DOMAIN store
                  /\ store[last.key].data = Marshal(hist[last.key].arg)
    /\ (IsSet(last) /\ last.err = "nil") =>
           /\ last.reply = "ok"
           /\ last.key \in DOMAIN store
           /\ store[last.key] = [data |-> Marshal(last.arg), ttl |-> CacheTTL]

C12_Witness ==
    /\ last.op = "SetUsers" /\ last.reply = "fault" /\ last.err = "storage"
    /\ last.cmds = 1 /\ accessors[last.acc].st = "open"
    /\ last.arg = Slice(<<"u2">>)
    /\ last.key \in DOMAIN store /\ store[last.key].data = <<"[", "u1", "]">>

\* C13: when the store answers a Get while no Set on the same key is still
\* in flight, what the Get returns is the collection of the Set that the
\* store executed last on that key (while it has not expired), whatever the
\* order in which the Sets began and returned.
C13_LastWriteWins ==
    [][\A g \in Goroutines :
          (/\ calls[g].st = "sent" /\ calls[g].op \in GetOps
           /\ calls'[g].st = "answered"
           /\ \A h \in Goroutines : ~(calls[h].op \in SetOps /\ calls[h].key = calls[g].key)
           /\ Fresh(calls[g].key))
          => LET out == GetOutcome(accessors[calls[g].acc], OpMsg(calls[g].op),
                                   OpRecords(calls[g].op),
                                   [reply |-> calls'[g].reply, data |-> calls'[g].rdata])
             IN out.err = "nil" /\ out.coll = hist[calls[g].key].arg]_vars

C13_Witness ==
    /\ last.op = "SetUsers" /\ last.acc = 1 /\ last.err = "nil"
    /\ last.arg = Slice(<<"u1">>)
    /\ hist[last.key].arg = Slice(<<"u2">>) /\ hist[last.key].over
    /\ calls[1].st = "idle"
    /\ calls[2].op = "GetUsers" /\ calls[2].acc = 2 /\ calls[2].st = "answered"
    /\ calls[2].key = last.key /\ calls[2].rdata = <<"[", "u2", "]">>

\* C14: a Get that returns a collection returns the whole argument of a Set
\* that began earlier on the same scope and the same kind.
C14_NoTornValue ==
    (IsGet(last) /\ last.err = "nil" /\ last.coll # NilSlice) =>
        <<accessors[last.acc].instanceID, accessors[last.acc].userID,
          OpResource(last.op), last.coll>> \in started

\* C15: NewRedisClient returns an accessor, open and bound to the given
\* (instanceID, userID), exactly when REDIS_DB is empty or a decimal integer
\* and the ping succeeds; otherwise it returns an error and no accessor, and a
\* malformed REDIS_DB is refused before any ping.
Numeric(s) ==
    LET d == IF s # EmptyStr /\ s[1] \in {"+", "-"} THEN Tail(s) ELSE s
    IN d # EmptyStr /\ \A i \in 1..Len(d) : d[i] \in Digits

C15_Construction ==
    last.op = "NewRedisClient" =>
        /\ last.err = "nil" <=> ((last.cfg = EmptyStr \/ Numeric(last.cfg)) /\ last.reply = "ok")
        /\ last.err = "nil" =>
              accessors[last.acc] = [st |-> "open", rev |-> 1,
                                     instanceID |-> last.scope[1], userID |-> last.scope[2]]
        /\ last.err # "nil" => accessors[last.acc].st = "none"
        /\ (last.cfg # EmptyStr /\ ~Numeric(last.cfg)) => last.err = "config" /\ last.cmds = 0

C15_Witness ==
    /\ last.op = "NewRedisClient" /\ last.err = "nil"
    /\ last.cfg = <<"-", "1">> /\ last.reply = "ok"
    /\ accessors[1].st = "open" /\ accessors[1].instanceID = <<"a", "/", "b">>

C17_ScopeImmutable ==
    [][\A a \in Accessors :
          accessors[a].st # "none" =>
             /\ accessors'[a].instanceID = accessors[a].instanceID
             /\ accessors'[a].userID = accessors[a].userID
             /\ (last'.acc = a /\ (IsSet(last') \/ IsGet(last'))) =>
                   last'.key = <<"s", "l", "a", "c", "k", ":">> \o accessors[a].instanceID
                                  \o <<"/">> \o accessors[a].userID \o <<":">>
                                  \o OpResource(last'.op)]_vars

C17_Witness ==
    /\ accessors[1].st = "closed"
    /\ accessors[1].instanceID = <<"a", "/", "b">> /\ accessors[1].userID = <<"b">>
    /\ last.op = "GetChannels" /\ last.err = "storage"
    /\ last.key = <<"s", "l", "a", "c", "k", ":", "a", "/", "b", "/", "b", ":",
                    "c", "h", "a", "n", "n", "e", "l", "s">>

\* C18: the payload and the remaining lifetime of an entry change only by a
\* successful Set on that entry's key or by the passing of time, which only
\* shortens the lifetime or removes the entry; Get and Close change no entry,
\* and the only commands are PING, SET, GET and the client's close.
C18_OnlySetAndExpiry ==
    [][/\ last'.cmd \in {"none", "PING", "SET", "GET", "CLOSE"}
       /\ \A k \in DOMAIN store \cup DOMAIN store' :
             EntryAt(store', k) # EntryAt(store, k) =>
                \/ IsSet(last') /\ last'.err = "nil" /\ last'.key = k
                \/ /\ last'.op = "Tick" /\ k \in DOMAIN store
                   /\ k \in DOMAIN store' =>
                         /\ store'[k].data = store[k].data
                         /\ store'[k].ttl < store[k].ttl]_vars

C18_Witness ==
    /\ last.op = "GetUsers" /\ last.err = "nil" /\ last.coll = Slice(<<"u1">>)
    /\ store[last.key].ttl = CacheTTL - HoursPerTick

\* C19: Close returns the result of the store client's close, success when
\* the client reports success and its error otherwise, also on an accessor
\* that is closed already; it issues no command to the store and leaves the
\* scope and the entries as they were.
C19_CloseForwards ==
    [][last'.op = "Close" =>
          /\ last'.cmd = "CLOSE" /\ last'.cmds = 0
          /\ last'.err = "nil" <=> last'.reply = "ok"
          /\ store' = store
          /\ \A a \in Accessors :
                /\ accessors'[a].instanceID = accessors[a].instanceID
                /\ accessors'[a].userID = accessors[a].userID]_vars

C19_Witness ==
    /\ last.op = "Close" /\ last.reply = "fault" /\ last.err = "closed"
    /\ accessors[1].st = "closed" /\ accessors[1].instanceID = <<"a", "/", "b">>
    /\ \E k \in DOMAIN store : store[k].data = <<"[", "u1", ",", "u2", "]">>

\* C20: every call that has begun returns; a construction whose ping the
\* store does not answer in time returns a Connection error and no accessor.
C20_NoBlocking ==
    /\ \A g \in Goroutines : (calls[g].st # "idle") ~> (calls[g].st = "idle")
    /\ [](last.reply = "timeout" =>
             /\ last.op = "NewRedisClient" /\ last.err = "connect"
             /\ accessors[last.acc].st = "none")

C20_Witness ==
    /\ last.op = "NewRedisClient" /\ last.reply = "timeout" /\ last.err = "connect"
    /\ accessors[1].st = "none"
    /\ \A g \in Goroutines : calls[g].st = "idle"

\* C21: a successful SetUsers/SetChannels, and a GetUsers/GetChannels that
\* decoded a payload, emit the log record of their kind with the accessor's
\* instanceID, its userID and, as count, the length of the collection
\* written or returned.
C21_SuccessRecord ==
    /\ (IsSet(last) /\ last.err = "nil") =>
          last.log = [msg |-> OpMsg(last.op), team_id |-> EmptyStr,
                      instance_id |-> accessors[last.acc].instanceID,
                      user_id |-> accessors[last.acc].userID,
                      count |-> Len(last.arg.items)]
    /\ (IsGet(last) /\ last.err = "nil" /\ last.reply = "value") =>
          last.log = [msg |-> OpMsg(last.op), team_id |-> EmptyStr,
                      instance_id |-> accessors[last.acc].instanceID,
                      user_id |-> accessors[last.acc].userID,
                      count |-> Len(last.coll.items)]

C21_Witness ==
    /\ last.op = "GetUsers" /\ last.err = "nil" /\ last.coll = Slice(<<"u1", "u2">>)
    /\ last.log.msg = "Loaded users from Redis" /\ last.log.count = 2
    /\ last.log.instance_id = <<"a", "/", "b">> /\ last.log.user_id = <<"b">>

\* C22: two accessors constructed with the same instanceID and userID use
\* the same key for a kind, and a successful Set through one followed
\* directly by a Get of that kind through the other, the store answering,
\* returns the collection that was set.
C22_SharedPartition ==
    [][\A a, b \in Accessors :
          (/\ a # b
           /\ accessors[a].st # "none" /\ accessors[b].st # "none"
           /\ accessors[a].instanceID = accessors[b].instanceID
           /\ accessors[a].userID = accessors[b].userID
           /\ IsSet(last) /\ last.err = "nil" /\ last.acc = a
           /\ IsGet(last') /\ last'.acc = b /\ SameKind(last, last')
           /\ last'.reply # "fault")
          => (last'.key = last.key /\ last'.err = "nil" /\ last'.coll = last.arg)]_vars

C22_Witness ==
    /\ accessors[1].st = "open" /\ accessors[2].st = "open"
    /\ accessors[1].instanceID = accessors[2].instanceID
    /\ accessors[1].userID = accessors[2].userID
    /\ last.op = "GetChannels" /\ last.acc = 2 /\ last.coll = Slice(<<"c1">>)
    /\ hist[last.key].by = 1 /\ hist[last.key].age = 0

\* C23: a successful Set gives its entry the full CacheTTL whatever lifetime
\* the entry it replaces had left, so an entry is readable until CacheTTL
\* hours after the latest successful Set on its key; a Get leaves the
\* lifetime of every entry as it was.
C23_LifetimeRestarts ==
    [][/\ (IsSet(last') /\ last'.err = "nil") =>
             /\ last'.key \in DOMAIN store'
             /\ store'[last'.key].ttl = CacheTTL
       /\ IsGet(last') =>
             /\ DOMAIN store' = DOMAIN store
             /\ \A k \in DOMAIN store : store'[k].ttl = store[k].ttl
       /\ \A k \in DOMAIN hist' :
             hist'[k].age < CacheTTL =>
                /\ k \in DOMAIN store'
                /\ store'[k].ttl = CacheTTL - hist'[k].age]_vars

C23_Witness ==
    /\ last.op = "SetUsers" /\ last.err = "nil"
    /\ last.prev = CacheTTL - 2 * HoursPerTick
    /\ hist[last.key].over /\ store[last.key].ttl = CacheTTL

\* C24: a Get or Set that returns an error emits no log record, returns no
\* collection and leaves the store as it was; a Set that fails at
\* serialization issues no command; a Get that returns the absent outcome
\* emits no log record.
C24_FailureHasNoEffect ==
    [][/\ ((IsSet(last') \/ IsGet(last')) /\ last'.err # "nil") =>
             /\ last'.log = NoLog
             /\ last'.coll = NilSlice
             /\ store' = store
       /\ (IsSet(last') /\ last'.err = "serialization") =>
             /\ last'.cmd = "none" /\ last'.cmds = 0
       /\ (IsGet(last') /\ Absent(last')) => last'.log = NoLog]_vars

\* C25: with a REDIS_DB that is set and is not an integer, NewRedisClient
\* returns the configuration error without creating a client or sending a
\* ping; otherwise it creates the client, for localhost:6379 when REDIS_ADDR
\* is unset and for database 0 when REDIS_DB is unset.
C25_ConfigFirst ==
    last.op = "NewRedisClient" =>
        /\ (last.cfg # EmptyStr /\ ~Numeric(last.cfg)) =>
              /\ last.err = "config" /\ ~last.client
              /\ last.cmd = "none" /\ last.cmds = 0
        /\ (last.cfg = EmptyStr \/ Numeric(last.cfg)) => last.client /\ last.cmd = "PING"
        /\ (last.client /\ last.addrEnv = EmptyStr) =>
              last.addr = <<"l", "o", "c", "a", "l", "h", "o", "s", "t", ":",
                            "6", "3", "7", "9">>
        /\ (last.client /\ last.addrEnv # EmptyStr) => last.addr = last.addrEnv
        /\ (last.client /\ last.cfg = EmptyStr) => last.db = 0

C25_Witness ==
    /\ last.op = "NewRedisClient" /\ last.err = "nil"
    /\ last.addrEnv = EmptyStr /\ last.cfg = EmptyStr /\ last.client
    /\ last.addr = DefaultAddr /\ last.db = 0

====
